---- MODULE Spec2Model ----
(***************************************************************************)
(* A model of src/dormitory.py: the Streamlit script that geocodes the     *)
(* address column of an uploaded sheet (Kakao address search behind        *)
(* st.cache_data), computes each row's distance from the school and        *)
(* assigns a score.                                                        *)
(*                                                                         *)
(* Representation.                                                         *)
(*   - A Python str that the code takes apart (a cell, a query, a JSON     *)
(*     string handed to float()) is a sequence of one-character strings.   *)
(*     A str the code only stores or tests for emptiness (the credential,  *)
(*     an error message) is a TLA+ string; the Korean messages of the      *)
(*     source are written in English.                                      *)
(*   - A float is an integer counting 1e-5 units (degrees or km), so the   *)
(*     4-decimal rounding of the result table is a real operation.         *)
(*   - Python values of mixed type are tagged records: None, pd.NA, NaN,   *)
(*     a float, a message.                                                 *)
(*   - The body of an HTTP response is assumed to parse as JSON; a JSON    *)
(*     value is a tagged record (null, num, str, list, obj), each kind     *)
(*     with a field of its own for what it holds.                          *)
(***************************************************************************)
EXTENDS Integers, Sequences, FiniteSets, TLC

(***************************************************************************)
(* Python values                                                           *)
(***************************************************************************)
None == [t |-> "None"]
NA == [t |-> "NA"]
NaN == [t |-> "nan"]
Inf == [t |-> "inf"]
Float(v) == [t |-> "float", v |-> v]
Msg(s) == [t |-> "str", text |-> s]

\* n whole units (degrees, km) as a float of the model
Units(n) == n * 100000

\* pd.isna(x), line 48: None, pd.NA and NaN are all "missing"
IsNa(x) == x.t \in {"None", "NA", "nan"}

\* bool(x) for the values a coordinate can take, as all(lat_lon) tests it
\* (line 42): None and 0.0 are falsy, NaN, inf and every other float are
\* truthy
Truthy(x) == CASE x.t = "None" -> FALSE
               [] x.t = "float" -> x.v # 0
               [] OTHER -> TRUE

(***************************************************************************)
(* Strings as character sequences: str(cell), split(',')[0], strip()       *)
(***************************************************************************)
\* The characters str.strip() removes (those str.isspace() holds for); one
\* that cannot be written in a string here goes by its code point
Whitespace ==
    {" ", "\t", "\n", "\r", "\f", "U+000B", "U+001C", "U+001D", "U+001E",
     "U+001F", "U+0085", "U+00A0", "U+1680", "U+2000", "U+2001", "U+2002",
     "U+2003", "U+2004", "U+2005", "U+2006", "U+2007", "U+2008", "U+2009",
     "U+200A", "U+2028", "U+2029", "U+202F", "U+205F", "U+3000"}

\* str(row.get(required_column, '')), line 97: a str cell is itself, a
\* missing cell (NaN) becomes the three characters "nan"
PyStr(cell) == IF cell.t = "NaN" THEN <<"n", "a", "n">> ELSE cell.s

\* s.split(',')[0]: the characters before the first comma
RECURSIVE BeforeComma(_)
BeforeComma(s) ==
    IF s = <<>> \/ Head(s) = "," THEN <<>>
    ELSE <<Head(s)>> \o BeforeComma(Tail(s))

RECURSIVE LStrip(_)
LStrip(s) == IF s # <<>> /\ Head(s) \in Whitespace THEN LStrip(Tail(s)) ELSE s

RECURSIVE RStrip(_)
RStrip(s) ==
    IF s # <<>> /\ s[Len(s)] \in Whitespace
    THEN RStrip(SubSeq(s, 1, Len(s) - 1)) ELSE s

Strip(s) == RStrip(LStrip(s))

\* lines 97-98: original_address.split(',')[0].strip()
address_to_search(cell) == Strip(BeforeComma(PyStr(cell)))

(***************************************************************************)
(* float(v) on a JSON value, line 27                                       *)
(***************************************************************************)
Digits == {"0", "1", "2", "3", "4", "5", "6", "7", "8", "9"}

DigitVal(c) ==
    CASE c = "0" -> 0 [] c = "1" -> 1 [] c = "2" -> 2 [] c = "3" -> 3
      [] c = "4" -> 4 [] c = "5" -> 5 [] c = "6" -> 6 [] c = "7" -> 7
      [] c = "8" -> 8 [] c = "9" -> 9

RECURSIVE DecimalValue(_)
DecimalValue(s) ==
    IF s = <<>> THEN 0
    ELSE 10 * DecimalValue(SubSeq(s, 1, Len(s) - 1)) + DigitVal(s[Len(s)])

Returned(v) == [ok |-> TRUE, v |-> v]
Raised(e) == [ok |-> FALSE, exc |-> e]

IsDigits(s) == s # <<>> /\ \A k \in 1..Len(s) : s[k] \in Digits

RECURSIVE Pow10(_)
Pow10(n) == IF n = 0 THEN 1 ELSE 10 * Pow10(n - 1)

\* The places of s where an exponent starts: digits, "e", digits
ExponentAt(s) ==
    {k \in 2..(Len(s) - 1) :
        /\ s[k] = "e"
        /\ IsDigits(SubSeq(s, 1, k - 1))
        /\ IsDigits(SubSeq(s, k + 1, Len(s)))}

\* float(): over strings of digits and lower-case letters whose value is
\* below 21474 (a float here is a count of 1e-5 in 32 bits), a digit string
\* is its value, digits "e" digits is the first times ten to the second,
\* "nan" is NaN, "inf" and "infinity" are inf, anything else raises
\* ValueError; a JSON number is its value; None, a list or a dict raise
\* TypeError.
PyFloat(j) ==
    CASE j.t = "num" -> Returned(Float(Units(j.n)))
      [] j.t = "str" ->
            IF IsDigits(j.s)
            THEN Returned(Float(Units(DecimalValue(j.s))))
            ELSE IF j.s = <<"n", "a", "n">> THEN Returned(NaN)
            ELSE IF j.s \in {<<"i", "n", "f">>,
                             <<"i", "n", "f", "i", "n", "i", "t", "y">>}
            THEN Returned(Inf)
            ELSE IF ExponentAt(j.s) # {}
            THEN LET k == CHOOSE e \in ExponentAt(j.s) : TRUE
                     m == DecimalValue(SubSeq(j.s, 1, k - 1))
                     x == DecimalValue(SubSeq(j.s, k + 1, Len(j.s))) IN
                 Returned(Float(IF m = 0 THEN 0 ELSE Units(m * Pow10(x))))
            ELSE Raised("ValueError")
      [] OTHER -> Raised("TypeError")

(***************************************************************************)
(* JSON values and the Python operations the geocoder applies to them      *)
(***************************************************************************)
JNull == [t |-> "null"]
JNum(n) == [t |-> "num", n |-> n]
JStr(s) == [t |-> "str", s |-> s]
JList(l) == [t |-> "list", l |-> l]
JObj(o) == [t |-> "obj", o |-> o]

\* bool(j), line 25: None, 0, "", [] and {} are falsy
JTruthy(j) ==
    CASE j.t = "null" -> FALSE
      [] j.t = "num" -> j.n # 0
      [] j.t = "str" -> j.s # <<>>
      [] j.t = "list" -> j.l # <<>>
      [] j.t = "obj" -> DOMAIN j.o # {}

\* j.get(key), line 25: a dict gives the value or None; nothing else has .get
JGet(j, key) ==
    IF j.t = "obj"
    THEN Returned(IF key \in DOMAIN j.o THEN j.o[key] ELSE JNull)
    ELSE Raised("AttributeError")

\* j[key] with a str key, lines 26-27
JItem(j, key) ==
    IF j.t = "obj"
    THEN IF key \in DOMAIN j.o THEN Returned(j.o[key]) ELSE Raised("KeyError")
    ELSE Raised("TypeError")

\* j[0], line 26: a dict decoded from JSON has only str keys
JFirst(j) ==
    CASE j.t = "list" -> IF j.l = <<>> THEN Raised("IndexError") ELSE Returned(j.l[1])
      [] j.t = "str" -> IF j.s = <<>> THEN Raised("IndexError") ELSE Returned(JStr(<<j.s[1]>>))
      [] j.t = "obj" -> Raised("KeyError")
      [] OTHER -> Raised("TypeError")

(***************************************************************************)
(* Error messages (lines 30, 34, 37, 112)                                  *)
(***************************************************************************)
MSG_NOT_FOUND == "address not found"
MSG_BAD_FORMAT == "malformed API response"
MSG_NO_ADDRESS == "no address information"
MSG_REQUEST_FAILED(e) ==
    CASE e = "Timeout" -> "API request failed: Timeout"
      [] e = "ConnectionError" -> "API request failed: ConnectionError"
      [] e = "HTTPError 404" -> "API request failed: HTTPError 404"
      [] e = "HTTPError 500" -> "API request failed: HTTPError 500"

(***************************************************************************)
(* get_lat_lon_from_address, lines 15-37, as a function of what            *)
(* requests.get does: it raises a RequestException or gives a response.    *)
(***************************************************************************)
Transport(e) == [kind |-> "raise", exc |-> e]
Http(status, body) == [kind |-> "resp", status |-> status, body |-> body]

Tuple3(lat, lon, err) == Returned([lat |-> lat, lon |-> lon, err |-> err])

\* response.raise_for_status(), line 21: HTTPError for 4xx and 5xx
raise_for_status(resp) ==
    IF resp.status >= 400 /\ resp.status < 600
    THEN Raised(IF resp.status = 404 THEN "HTTPError 404" ELSE "HTTPError 500")
    ELSE Returned(None)

\* lines 25-30, with the exceptions of lines 26-27 not yet caught
ParseBody(json_result) ==
    LET docs == JGet(json_result, "documents") IN
    IF ~docs.ok THEN docs
    ELSE IF ~JTruthy(docs.v) THEN Tuple3(None, None, Msg(MSG_NOT_FOUND))
    ELSE LET first == JFirst(docs.v) IN
    IF ~first.ok THEN first
    ELSE LET address_info == JItem(first.v, "address") IN
    IF ~address_info.ok THEN address_info
    ELSE LET y == JItem(address_info.v, "y") IN
    IF ~y.ok THEN y
    ELSE LET lat == PyFloat(y.v) IN
    IF ~lat.ok THEN lat
    ELSE LET x == JItem(address_info.v, "x") IN
    IF ~x.ok THEN x
    ELSE LET lon == PyFloat(x.v) IN
    IF ~lon.ok THEN lon
    ELSE Tuple3(lat.v, lon.v, None)

\* line 35: except (KeyError, IndexError, TypeError)
CaughtAsBadFormat == {"KeyError", "IndexError", "TypeError"}

\* The whole function: Returned(the 3-tuple), or Raised(e) for an exception
\* that neither except clause catches (ValueError, AttributeError).
get_lat_lon_from_address(resp) ==
    IF resp.kind = "raise"
    THEN Tuple3(None, None, Msg(MSG_REQUEST_FAILED(resp.exc)))
    ELSE LET st == raise_for_status(resp) IN
    IF ~st.ok THEN Tuple3(None, None, Msg(MSG_REQUEST_FAILED(st.exc)))
    ELSE LET r == ParseBody(resp.body) IN
    IF r.ok THEN r
    ELSE IF r.exc \in CaughtAsBadFormat
    THEN Tuple3(None, None, Msg(MSG_BAD_FORMAT))
    ELSE r

(***************************************************************************)
(* calculate_distance_from_school, lines 39-44                             *)
(***************************************************************************)
\* haversine(school_coords, (lat, lon), unit='km') from (37.4973462,
\* 126.8640144), mean radius 6371.0088 km, tabulated in 1e-5 km for the whole
\* degrees the model's responses carry; an infinite coordinate raises
\* ValueError (math.sin of inf, or the library's range check); otherwise NaN
\* in, NaN out.
haversine(lat, lon) ==
    IF lat.t = "inf" \/ lon.t = "inf" THEN Raised("ValueError")
    ELSE IF lat.t = "nan" \/ lon.t = "nan" THEN Returned(NaN)
    ELSE LET a == lat.v \div 100000
             o == lon.v \div 100000 IN
    Returned(Float(
          CASE a = 37 /\ o = 126 -> 9437629
            [] a = 37 /\ o = 129 -> 19697946
            [] a = 35 /\ o = 126 -> 28829461
            [] a = 35 /\ o = 129 -> 33732056
            [] a = 33 /\ o = 126 -> 50619238
            [] a = 33 /\ o = 129 -> 53633508
            [] a = 0 /\ o = 126 -> 417046445
            [] a = 0 /\ o = 129 -> 417528655
            [] a = 37 /\ o = 100 -> 237035746
            [] a = 35 /\ o = 100 -> 241669652
            [] a = 33 /\ o = 100 -> 248126454
            [] a = 0 /\ o = 100 -> 499788138
            [] a = 37 /\ o = 0 -> 1009536455
            [] a = 35 /\ o = 0 -> 1026716192
            [] a = 33 /\ o = 0 -> 1043883151
            [] a = 0 /\ o = 0 -> 1316795691))

\* Returned(the distance or None), or Raised(e) for what haversine raises
calculate_distance_from_school(lat, lon) ==
    IF Truthy(lat) /\ Truthy(lon) THEN haversine(lat, lon) ELSE Returned(None)

(***************************************************************************)
(* assign_score, lines 46-59                                               *)
(***************************************************************************)
assign_score_exclusive(distance) ==
    IF IsNa(distance) THEN 0
    ELSE IF distance.t = "inf" THEN 70
    ELSE IF distance.v > Units(400) THEN 70
    ELSE IF distance.v > Units(300) THEN 50
    ELSE IF distance.v > Units(200) THEN 30
    ELSE IF distance.v > Units(100) THEN 10
    ELSE 0

\* inf is above every bound
assign_score(distance) ==
    IF IsNa(distance) THEN 0
    ELSE IF distance.t = "inf" THEN 70
    ELSE IF distance.v >= Units(400) THEN 70
    ELSE IF distance.v >= Units(300) THEN 50
    ELSE IF distance.v >= Units(200) THEN 30
    ELSE IF distance.v >= Units(100) THEN 10
    ELSE 0

(***************************************************************************)
(* Result table: pd.to_numeric(errors='coerce').round(4), lines 130-132    *)
(***************************************************************************)
\* errors='coerce' on an object column: None and pd.NA become NaN
ToNumeric(x) == IF IsNa(x) THEN NaN ELSE x

\* round(4) of a float kept as a count of 1e-5, as the set of what it can
\* give: the nearest multiple of 10; for a count ending in 5 either
\* neighbour, since the code rounds the binary float behind the count
\* (rint of x * 10^4), which lies on one side of the tie or the other (for
\* 0.00015 below it: 0.0001) and which the count does not tell
Round4(x) ==
    IF x.t # "float" THEN {x}
    ELSE LET r == x.v % 10
             base == x.v - r IN
         IF r < 5 THEN {Float(base)}
         ELSE IF r > 5 THEN {Float(base + 10)}
         ELSE {Float(base), Float(base + 10)}

\* A column rounded: each entry one of the values its rounding can give
Rounded(col) ==
    {f \in [DOMAIN col -> UNION {Round4(ToNumeric(col[k])) : k \in DOMAIN col}] :
        \A k \in DOMAIN col : f[k] \in Round4(ToNumeric(col[k]))}

(***************************************************************************)
(* Inputs: uploaded sheets, credentials, responses of the service          *)
(***************************************************************************)
\* What pd.read_excel (line 78) puts in a cell of the column: NaN for an
\* empty cell, under its default handling of missing values, or the text of
\* the cell, which then is not the empty string
CellNaN == [t |-> "NaN"]
Cell(s) == [t |-> "str", s |-> s]

Sheet(has_column, cells) == [has_column |-> has_column, cells |-> cells]

\* The sheets a user uploads: without the address column; without rows; an
\* empty cell, read as NaN; one address written twice, differently, around a cell that
\* starts with a comma; a missing cell, a blank cell and an address, with
\* the whitespace of a sheet: space, tab, line feed, ideographic space.
Sheets ==
    { Sheet(FALSE, <<Cell(<<"A">>)>>),
      Sheet(TRUE, <<>>),
      Sheet(TRUE, <<CellNaN>>),
      Sheet(TRUE, <<Cell(<<"A", ",", " ", "1">>), Cell(<<",", "A">>), Cell(<<"\t", "A">>)>>),
      Sheet(TRUE, <<CellNaN, Cell(<<" ", "U+3000">>), Cell(<<"A", "\n">>)>>) }

\* What st.text_input gives: nothing typed, or one of two keys
Credentials == {"", "k1", "k2"}

Absent == [t |-> "absent"]

\* A JSON object with the members among x, y that are given
AddressObject(x, y) ==
    JObj([k \in {m \in {"x", "y"} : (IF m = "x" THEN x ELSE y) # Absent}
            |-> IF k = "x" THEN x ELSE y])

Document(address) ==
    IF address = Absent THEN JObj(<<>>) ELSE JObj([address |-> address])

Body(documents) ==
    IF documents = Absent THEN JObj(<<>>) ELSE JObj([documents |-> documents])

WellFormed(y, x) == Document(AddressObject(JStr(x), JStr(y)))

XValues ==
    {Absent, JNull, JNum(126), JStr(<<>>), JStr(<<"a", "b", "c">>),
     JStr(<<"0">>), JStr(<<"1", "2", "6">>), JStr(<<"1", "2", "9">>),
     JStr(<<"1", "e", "2">>), JStr(<<"1", "e">>)}

YValues ==
    {Absent, JNull, JNum(35), JStr(<<"n", "a", "n">>), JStr(<<"a", "b", "c">>),
     JStr(<<"0">>), JStr(<<"3", "3">>), JStr(<<"3", "5">>), JStr(<<"3", "7">>),
     JStr(<<"i", "n", "f">>)}

Documents ==
    {Document(a) : a \in {Absent, JNull, JList(<<>>), JStr(<<"a">>)}}
    \cup {Document(AddressObject(x, y)) : x \in XValues, y \in YValues}
    \cup {JNull, JStr(<<"a">>)}

Bodies ==
    {JNull, JList(<<>>), JStr(<<"a">>)}
    \cup {Body(d) : d \in {Absent, JNull, JList(<<>>), JObj(<<>>),
                           JStr(<<"a">>), JNum(1), JObj([total |-> JNum(0)])}}
    \cup {Body(JList(<<d>>)) : d \in Documents}
    \cup {Body(JList(<<d, WellFormed(<<"3", "7">>, <<"1", "2", "6">>)>>)) :
            d \in Documents}

Statuses == {200, 404, 500}

\* Everything requests.get can do
Responses ==
    {Transport(e) : e \in {"Timeout", "ConnectionError"}}
    \cup {Http(s, b) : s \in Statuses, b \in Bodies}

\* The responses the service gives during a run: one of each way the
\* function ends
RunResponses ==
    { Transport("Timeout"),
      Http(500, JNull),
      Http(200, JList(<<>>)),
      Http(200, Body(Absent)),
      Http(200, Body(JList(<<>>))),
      Http(200, Body(JList(<<Document(JNull)>>))),
      Http(200, Body(JList(<<WellFormed(<<"3", "7">>, <<"a", "b", "c">>)>>))),
      Http(200, Body(JList(<<WellFormed(<<"0">>, <<"1", "2", "6">>)>>))),
      Http(200, Body(JList(<<WellFormed(<<"i", "n", "f">>, <<"1", "2", "6">>)>>))),
      Http(200, Body(JList(<<WellFormed(<<"3", "3">>, <<"1", "2", "6">>),
                             WellFormed(<<"3", "7">>, <<"1", "2", "6">>)>>))) }

(***************************************************************************)
(* State                                                                   *)
(***************************************************************************)
VARIABLES
    cache,          \* st.cache_data of get_lat_lon_from_address: arguments -> tuple
    runs,           \* button clicks so far
    pc,             \* where the script is: idle, loop, done, no_key, no_column, aborted
    rest_api_key,   \* the credential of the current run
    column,         \* df[required_column] of the current run
    i,              \* rows the loop has completed
    lat, lon, dist, \* df columns, lines 90-92
    err,            \* df error-message column, line 93
    score,          \* df score column, line 121 (<<>> until computed)
    progress_bar,   \* <<done, total>> shown by the bar, <<>> when there is none
    events,         \* the updates of lines 115-117, in order
    shown,          \* st.dataframe(df) was called in this run, line 134
    calls,          \* the geocoder invocations of this run, in order
    cachedAtStart,  \* DOMAIN cache when the run began
    scored,         \* assign_score applications (specification SpecScore)
    geocoded        \* get_lat_lon_from_address applications (SpecGeocode)

vars ==
    <<cache, runs, pc, rest_api_key, column, i, lat, lon, dist, err, score,
      progress_bar, events, shown, calls, cachedAtStart, scored, geocoded>>

runVars ==
    <<cache, runs, pc, rest_api_key, column, i, lat, lon, dist, err, score,
      progress_bar, events, shown, calls, cachedAtStart>>

MaxRuns == 3

\* The script before the button is first pressed
Init ==
    /\ cache = <<>>
    /\ runs = 0
    /\ pc = "idle"
    /\ rest_api_key = ""
    /\ column = <<>>
    /\ i = 0
    /\ lat = <<>> /\ lon = <<>> /\ dist = <<>>
    /\ err = <<>>
    /\ score = <<>>
    /\ progress_bar = <<>>
    /\ events = <<>>
    /\ shown = FALSE
    /\ calls = <<>>
    /\ cachedAtStart = {}
    /\ scored = <<>>
    /\ geocoded = <<>>

(***************************************************************************)
(* st.cache_data, line 14: the cache key is made of the function's         *)
(* arguments, both of them, and the cache lives as long as the server.     *)
(***************************************************************************)
CacheKey(address, key) == <<address, key>>

\* The returned tuple is stored, whatever it holds
CachePut(c, k, tuple) ==
    [x \in DOMAIN c \cup {k} |-> IF x = k THEN tuple ELSE c[x]]

\* Nothing clears the cache when the script reruns
CacheAtRunStart(c) == c

N == Len(column)

KeyMissingNever(key) == FALSE

\* line 74: not rest_api_key
KeyMissing(key) == key = ""

Blank(n, v) == [k \in 1..n |-> v]

Finished == pc \in {"idle", "done", "no_key", "no_column", "aborted"}

(***************************************************************************)
(* Lines 72-93: the button is pressed with a file uploaded                 *)
(***************************************************************************)
StartRun(key, sheet) ==
    /\ Finished
    /\ runs < MaxRuns
    /\ runs' = runs + 1
    /\ rest_api_key' = key
    /\ cache' = CacheAtRunStart(cache)
    /\ cachedAtStart' = DOMAIN cache
    /\ calls' = <<>>
    /\ events' = <<>>
    /\ score' = <<>>
    /\ shown' = FALSE
    /\ i' = 0
    /\ UNCHANGED <<scored, geocoded>>
    /\ IF KeyMissing(key)
       THEN /\ pc' = "no_key"
            /\ column' = <<>>
            /\ lat' = <<>> /\ lon' = <<>> /\ dist' = <<>> /\ err' = <<>>
            /\ progress_bar' = <<>>
       ELSE IF ~sheet.has_column
       THEN /\ pc' = "no_column"
            /\ column' = <<>>
            /\ lat' = <<>> /\ lon' = <<>> /\ dist' = <<>> /\ err' = <<>>
            /\ progress_bar' = <<>>
       ELSE /\ pc' = "loop"
            /\ column' = sheet.cells
            /\ lat' = Blank(Len(sheet.cells), NA)
            /\ lon' = Blank(Len(sheet.cells), NA)
            /\ dist' = Blank(Len(sheet.cells), NA)
            /\ err' = Blank(Len(sheet.cells), "")
            /\ progress_bar' = <<0, 1>>

(***************************************************************************)
(* Lines 95-117: one iteration of the row loop                             *)
(***************************************************************************)
Call(row, address, network, resp, result) ==
    [row |-> row, address |-> address, network |-> network, resp |-> resp,
     result |-> result]

NoResponse == [kind |-> "none"]

ProgressOffByOne ==
    /\ progress_bar' = <<i, N>>
    /\ events' = Append(events, <<i, N>>)
    /\ i' = i + 1

\* lines 115-117
Progress ==
    /\ progress_bar' = <<i + 1, N>>
    /\ events' = Append(events, <<i + 1, N>>)
    /\ i' = i + 1

\* line 103: if error_message
HasError(tuple) == tuple.err # None /\ tuple.err.text # ""

\* line 110 raises: the tuple has no error message and its distance cannot
\* be computed
RowRaises(tuple) ==
    ~HasError(tuple) /\ ~calculate_distance_from_school(tuple.lat, tuple.lon).ok

\* lines 103-110, given the tuple the geocoder returned
Record(tuple) ==
    IF HasError(tuple)
    THEN /\ err' = [err EXCEPT ![i + 1] = tuple.err.text]
         /\ UNCHANGED <<lat, lon, dist>>
    ELSE /\ lat' = [lat EXCEPT ![i + 1] = tuple.lat]
         /\ lon' = [lon EXCEPT ![i + 1] = tuple.lon]
         /\ dist' = [dist EXCEPT ![i + 1] =
                        calculate_distance_from_school(tuple.lat, tuple.lon).v]
         /\ UNCHANGED err

\* lines 108-110 when line 110 raises: the coordinate is in the table, the
\* exception leaves the loop, line 151 reports it and the script ends with
\* the bar as it was
RecordRaises(tuple) ==
    /\ lat' = [lat EXCEPT ![i + 1] = tuple.lat]
    /\ lon' = [lon EXCEPT ![i + 1] = tuple.lon]
    /\ pc' = "aborted"
    /\ UNCHANGED <<dist, err, progress_bar, events, i>>

\* line 112
NoAddress ==
    /\ err' = [err EXCEPT ![i + 1] = MSG_NO_ADDRESS]
    /\ UNCHANGED <<lat, lon, dist, cache, calls, pc>>
    /\ Progress

\* line 101 answered by st.cache_data
CacheHit(address) ==
    LET k == CacheKey(address, rest_api_key) IN
    /\ k \in DOMAIN cache
    /\ ~RowRaises(cache[k])
    /\ calls' = Append(calls, Call(i + 1, address, FALSE, NoResponse, Returned(cache[k])))
    /\ Record(cache[k])
    /\ UNCHANGED <<cache, pc>>
    /\ Progress

\* line 101 answered by st.cache_data, line 110 raising
CacheHitRaises(address) ==
    LET k == CacheKey(address, rest_api_key) IN
    /\ k \in DOMAIN cache
    /\ RowRaises(cache[k])
    /\ calls' = Append(calls, Call(i + 1, address, FALSE, NoResponse, Returned(cache[k])))
    /\ RecordRaises(cache[k])
    /\ UNCHANGED cache

\* line 101 running the function, which returns
CacheMiss(address, resp) ==
    LET k == CacheKey(address, rest_api_key)
        r == get_lat_lon_from_address(resp) IN
    /\ k \notin DOMAIN cache
    /\ r.ok
    /\ ~RowRaises(r.v)
    /\ calls' = Append(calls, Call(i + 1, address, TRUE, resp, r))
    /\ cache' = CachePut(cache, k, r.v)
    /\ Record(r.v)
    /\ UNCHANGED pc
    /\ Progress

\* line 101 running the function, which returns and is cached, line 110
\* raising
CacheMissRaises(address, resp) ==
    LET k == CacheKey(address, rest_api_key)
        r == get_lat_lon_from_address(resp) IN
    /\ k \notin DOMAIN cache
    /\ r.ok
    /\ RowRaises(r.v)
    /\ calls' = Append(calls, Call(i + 1, address, TRUE, resp, r))
    /\ cache' = CachePut(cache, k, r.v)
    /\ RecordRaises(r.v)

\* line 101 running the function, which raises: line 151 reports it and the
\* script ends; progress_bar.empty() (line 123) is not reached and the bar
\* stays as it was
Abort(address, resp) ==
    LET k == CacheKey(address, rest_api_key)
        r == get_lat_lon_from_address(resp) IN
    /\ k \notin DOMAIN cache
    /\ ~r.ok
    /\ calls' = Append(calls, Call(i + 1, address, TRUE, resp, r))
    /\ pc' = "aborted"
    /\ UNCHANGED <<cache, lat, lon, dist, err, events, i, progress_bar>>

ProcessRow ==
    /\ pc = "loop"
    /\ i < N
    /\ UNCHANGED <<runs, rest_api_key, column, score, shown, cachedAtStart,
                   scored, geocoded>>
    /\ LET address == address_to_search(column[i + 1]) IN
       IF address = <<>> THEN NoAddress
       ELSE \/ CacheHit(address)
            \/ CacheHitRaises(address)
            \/ \E resp \in RunResponses : CacheMiss(address, resp)
            \/ \E resp \in RunResponses : CacheMissRaises(address, resp)
            \/ \E resp \in RunResponses : Abort(address, resp)

(***************************************************************************)
(* Lines 119-134: scores, rounding, the table                              *)
(***************************************************************************)
Finish ==
    /\ pc = "loop"
    /\ i = N
    /\ score' = [k \in 1..N |-> assign_score(dist[k])]
    /\ progress_bar' = <<>>
    /\ lat' \in Rounded(lat)
    /\ lon' \in Rounded(lon)
    /\ dist' \in Rounded(dist)
    /\ shown' = TRUE
    /\ pc' = "done"
    /\ UNCHANGED <<cache, runs, rest_api_key, column, i, err, events, calls,
                   cachedAtStart, scored, geocoded>>

Next ==
    \/ \E key \in Credentials, sheet \in Sheets : StartRun(key, sheet)
    \/ ProcessRow
    \/ Finish

Spec == Init /\ [][Next]_vars

(***************************************************************************)
(* assign_score on its own: any two distances, one after the other         *)
(***************************************************************************)
MaxGrid == 18

\* Every 25 km up to 25 * MaxGrid km and the floats next to each, 99.999 km,
\* 1000 km, and the three missing values
Distances ==
    {None, NA, NaN}
    \cup {Float(Units(25 * k) + e) : k \in 0..MaxGrid, e \in {-1, 0, 1}}
    \cup {Float(Units(100) - 100), Float(Units(200) - 100), Float(Units(1000))}

Score(d) ==
    /\ scored' = (IF scored = <<>> THEN <<>> ELSE <<scored[Len(scored)]>>)
                    \o <<[distance |-> d, score |-> assign_score(d)]>>
    /\ UNCHANGED runVars
    /\ UNCHANGED geocoded

NextScore == \E d \in Distances : Score(d)

SpecScore == Init /\ [][NextScore]_vars

(***************************************************************************)
(* get_lat_lon_from_address on its own: any response                       *)
(***************************************************************************)
Geocode(resp) ==
    /\ geocoded' = <<[resp |-> resp, result |-> get_lat_lon_from_address(resp)]>>
    /\ UNCHANGED runVars
    /\ UNCHANGED scored

NextGeocode == \E resp \in Responses : Geocode(resp)

SpecGeocode == Init /\ [][NextGeocode]_vars

(***************************************************************************)
(* Properties                                                              *)
(***************************************************************************)
\* The invocations of this run that looked `address` up, as indices of calls
CallsFor(address) == {n \in 1..Len(calls) : calls[n].address = address}

NetworkCallsFor(address) == {n \in CallsFor(address) : calls[n].network}

Invoked == {calls[n].address : n \in 1..Len(calls)}

\* The geocoder returned a coordinate / an error for row k of this run
Resolved(k) ==
    \E n \in 1..Len(calls) :
        calls[n].row = k /\ calls[n].result.ok /\ calls[n].result.v.err = None

Failed(k) ==
    \E n \in 1..Len(calls) :
        calls[n].row = k /\ calls[n].result.ok /\ calls[n].result.v.err # None

\* C1: assign_score gives 70 from 400 km, 50 from 300 km, 30 from 200 km, 10
\* from 100 km, 0 below 100 km and for a missing distance (None, pd.NA, NaN),
\* each lower bound included, and never gives less for a larger distance.
C1_ScoreBands ==
    /\ \A k \in 1..Len(scored) :
        LET d == scored[k].distance
            s == scored[k].score IN
        IF IsNa(d) THEN s = 0
        ELSE /\ d.v >= Units(400) => s = 70
             /\ (d.v >= Units(300) /\ d.v < Units(400)) => s = 50
             /\ (d.v >= Units(200) /\ d.v < Units(300)) => s = 30
             /\ (d.v >= Units(100) /\ d.v < Units(200)) => s = 10
             /\ d.v < Units(100) => s = 0
    /\ \A j, k \in 1..Len(scored) :
        (/\ ~IsNa(scored[j].distance)
         /\ ~IsNa(scored[k].distance)
         /\ scored[j].distance.v <= scored[k].distance.v)
        => scored[j].score <= scored[k].score

\* 399.99999 km scored 50, then 400 km scored 70
C1_Witness ==
    /\ Len(scored) = 2
    /\ scored[1] = [distance |-> Float(Units(400) - 1), score |-> 50]
    /\ scored[2] = [distance |-> Float(Units(400)), score |-> 70]

\* C2: in a completed batch a row has no distance exactly when its address
\* was empty or its geocoding failed; a row whose address resolved has a
\* distance and no error message, and a row without a distance has an error
\* message.
C2_DistanceAbsentIffFailedOrEmpty ==
    pc = "done" =>
        \A k \in 1..N :
            /\ IsNa(dist[k]) <=>
                (Failed(k) \/ address_to_search(column[k]) = <<>>)
            /\ Resolved(k) => (~IsNa(dist[k]) /\ err[k] = "")
            /\ IsNa(dist[k]) => err[k] # ""

\* A raw address that is empty, only whitespace, or a missing cell
RawEmpty(cell) ==
    \/ cell.t = "NaN"
    \/ \A k \in 1..Len(cell.s) : cell.s[k] \in Whitespace

\* C3: a row whose raw address is empty, whitespace or missing normalizes to
\* the empty address, causes no geocoder invocation, and ends with the "no
\* address information" message, no coordinates, no distance and score 0.
C3_EmptyAddressShortCircuits ==
    \A k \in 1..i :
        RawEmpty(column[k]) =>
            /\ address_to_search(column[k]) = <<>>
            /\ \A n \in 1..Len(calls) : calls[n].row # k
            /\ err[k] = MSG_NO_ADDRESS
            /\ IsNa(lat[k]) /\ IsNa(lon[k]) /\ IsNa(dist[k])
            /\ pc = "done" => score[k] = 0

\* C4: an address the geocoder is invoked with more than once in a
\* run causes exactly one network call in that run, and every invocation
\* returns the same outcome.
C4_ExactlyOneCall ==
    \A a \in Invoked :
        Cardinality(CallsFor(a)) > 1 =>
            /\ Cardinality(NetworkCallsFor(a)) = 1
            /\ \A m, n \in CallsFor(a) : calls[m].result = calls[n].result

\* The address of invocation n had an outcome cached before it, under the
\* credential `key`
CachedBefore(n, key) ==
    \/ <<calls[n].address, key>> \in cachedAtStart
    \/ /\ key = rest_api_key
       /\ \E m \in 1..(n - 1) :
            calls[m].address = calls[n].address /\ calls[m].result.ok

\* C5: a lookup of an address that has a cached outcome, under
\* whatever credential it was cached, makes no network call.
C5_KeyedByAddressOnly ==
    \A n \in 1..Len(calls) :
        (\E key \in Credentials : CachedBefore(n, key)) => ~calls[n].network

\* The first invocation of this run for each address
FirstCalls ==
    {n \in 1..Len(calls) :
        \A m \in 1..(n - 1) : calls[m].address # calls[n].address}

\* C6: the cache belongs to one run: in every run the first lookup
\* of an address goes to the network.
C6_FirstLookupCallsNetwork ==
    \A n \in FirstCalls : calls[n].network

\* C7: whatever the service answers, a run started with a credential is not
\* aborted: a failed row has its message, score 0 and no coordinates, and
\* the run ends with one result per row.
C7_RowFailureNeverAborts ==
    /\ pc # "aborted"
    /\ \A k \in 1..i :
          Failed(k) => (err[k] # "" /\ IsNa(lat[k]) /\ IsNa(lon[k]))
    /\ pc = "done" =>
          /\ Len(score) = N
          /\ \A k \in 1..N : Failed(k) => score[k] = 0

\* C8: a run started without a credential stops at once: no geocoder
\* invocation, no cache entry added, no progress bar or event, no table.
C8_MissingCredentialAborts ==
    (runs > 0 /\ rest_api_key = "") =>
        /\ pc = "no_key"
        /\ calls = <<>>
        /\ DOMAIN cache = cachedAtStart
        /\ events = <<>>
        /\ progress_bar = <<>>
        /\ i = 0
        /\ score = <<>>
        /\ ~shown

\* A run without a credential, after a run that had one and made calls
C8_Witness ==
    /\ pc = "no_key"
    /\ runs = 2
    /\ cachedAtStart # {}

\* C9: the k-th progress event is (k, N) and follows the k-th row; a run that
\* completes has emitted exactly N of them, the last being (N, N), and the
\* table is shown only then.
C9_ProgressEvents ==
    /\ Len(events) = i
    /\ \A k \in 1..Len(events) : events[k] = <<k, N>>
    /\ pc = "done" => Len(events) = N
    /\ shown => (pc = "done" /\ Len(events) = N)

\* A run over three rows that completed
C9_Witness ==
    /\ pc = "done"
    /\ shown
    /\ N = 3
    /\ events = <<<<1, 3>>, <<2, 3>>, <<3, 3>>>>

\* Shapes of a 2xx body, as the claim names them
EmptyResultList(body) ==
    /\ body.t = "obj"
    /\ "documents" \in DOMAIN body.o
    /\ body.o.documents = JList(<<>>)

FirstResult(body) == body.o.documents.l[1]

HasFirstResult(body) ==
    /\ body.t = "obj"
    /\ "documents" \in DOMAIN body.o
    /\ body.o.documents.t = "list"
    /\ body.o.documents.l # <<>>
    /\ FirstResult(body).t = "obj"

HasAddressObject(body) ==
    /\ HasFirstResult(body)
    /\ "address" \in DOMAIN FirstResult(body).o
    /\ FirstResult(body).o.address.t = "obj"

MissingField(body) ==
    \/ body.t = "obj" /\ "documents" \notin DOMAIN body.o
    \/ HasFirstResult(body) /\ "address" \notin DOMAIN FirstResult(body).o
    \/ /\ HasAddressObject(body)
       /\ {"x", "y"} \ DOMAIN FirstResult(body).o.address.o # {}

IsNumber(j) == j.t = "num" \/ (j.t = "str" /\ PyFloat(j).ok)

FirstWellFormed(body) ==
    /\ HasAddressObject(body)
    /\ {"x", "y"} \subseteq DOMAIN FirstResult(body).o.address.o
    /\ IsNumber(FirstResult(body).o.address.o.x)
    /\ IsNumber(FirstResult(body).o.address.o.y)

\* C10: of a 2xx response, an empty result list is "address not found", a
\* missing field (documents, the first result's address, its x or y) is
\* "malformed response", and a well-formed first result is its coordinate.
C10_ClassifiedByShape ==
    \A k \in 1..Len(geocoded) :
        LET resp == geocoded[k].resp
            result == geocoded[k].result IN
        (resp.kind = "resp" /\ resp.status = 200) =>
            /\ EmptyResultList(resp.body) =>
                  result = Tuple3(None, None, Msg(MSG_NOT_FOUND))
            /\ MissingField(resp.body) =>
                  result = Tuple3(None, None, Msg(MSG_BAD_FORMAT))
            /\ FirstWellFormed(resp.body) =>
                  result = Tuple3(PyFloat(FirstResult(resp.body).o.address.o.y).v,
                                  PyFloat(FirstResult(resp.body).o.address.o.x).v,
                                  None)

====
